---- MODULE Spec2Model ----
(***************************************************************************)
(* Executor lifecycle orchestration of the hummingbot smart components:    *)
(*   - GenericExecutor (generic_executor.py): control_task takes a report, *)
(*     asks its controller for actions and applies them (execute_actions). *)
(*   - PMMSingleLevel (v2_pmm_single_level.py): on_tick bootstraps the     *)
(*     account, refreshes the executors' info and proposes create, stop    *)
(*     and store actions from that snapshot.                               *)
(* One behaviour runs one of the two programs (variable framework); both   *)
(* apply their actions through execute_actions.                            *)
(***************************************************************************)
EXTENDS Integers, Sequences, FiniteSets, TLC

VARIABLES
    framework,            \* "generic" (GenericExecutor) or "strategy_v2" (PMMSingleLevel)
    markets,              \* the configured connectors, in dict order, each with its trading pairs
    now,                  \* the clock (current_timestamp / time.time())
    position_executors,   \* GenericExecutor.position_executors
    dca_executors,        \* GenericExecutor.dca_executors
    arbitrage_executors,  \* GenericExecutor.arbitrage_executors
    pc,                   \* position of the tick: "idle", "report" (snapshot taken), "execute", "return"
    report,               \* the snapshot of executor infos the decide phase reads
    provider_ready,       \* market_data_provider.ready, as on_tick read it in the current tick
    decided,              \* the decide phase of the current tick has run
    actions,              \* the action list decided in the current tick
    idx,                  \* index in actions of the next action execute_actions applies
    applied,              \* the actions of the current tick whose branch ran to its end
    raised,               \* execute_actions raised ValueError in the current tick
    effect,               \* the collaborator call made by the last step of execute_actions
    stored,               \* MarketsRecorder.store_executor calls received, per executor
    next_id,              \* next auto-generated config id
    next_uid,             \* next executor object identity
    started,              \* GenericExecutor.on_start has run
    account_config_set,   \* PMMSingleLevel.account_config_set
    position_mode_calls,  \* connector.set_position_mode calls received, per connector
    leverage_calls        \* connector.set_leverage calls received, per connector and pair

\* GenericExecutor.stop has called controller.stop()
VARIABLE controller_stopped

\* MarroqController.get_executor_config, one call: its inputs, locals and result
VARIABLES
    stage,                     \* position in get_executor_config: "start", "candles",
                               \* "prominence", "peaks", "clusters", "returned", "raised"
    dca_levels,                \* config.dca_levels
    dca_amounts_distribution,  \* config.dca_amounts_distribution
    candles,                   \* the bar window, by what the code reads of it
    prominence,                \* calculate_prominence's result, in hundredths of a price unit
    high_peak_prices,          \* candles['high'].iloc[high_peaks].values
    low_peak_prices,           \* candles['low'].iloc[low_peaks].values
    high_clusters,             \* the centroids hierarchical_clustering returns for the highs
    low_clusters,              \* the centroids hierarchical_clustering returns for the lows
    trade_type,                \* the side of the level get_executor_config is called for
    price,                     \* the reference price it is called with
    amount,                    \* the order amount it is called with
    returned_config,           \* the DCAExecutorConfig it returns
    error                      \* the exception it raises

marroq_vars == <<stage, dca_levels, dca_amounts_distribution, candles, prominence,
                 high_peak_prices, low_peak_prices, high_clusters, low_clusters,
                 trade_type, price, amount, returned_config, error>>

vars == <<controller_stopped, framework, markets, now, position_executors, dca_executors, arbitrage_executors,
          pc, report, provider_ready, decided, actions, idx, applied, raised, effect, stored,
          next_id, next_uid, started, account_config_set, position_mode_calls,
          leverage_calls, marroq_vars>>

-----------------------------------------------------------------------------
(* Bounds of the model *)

\* executors (and config ids) ever created in one behaviour
MaxExecutors == 4
\* executors a generic controller may ask for in one behaviour
MaxControllerCreates == 2
\* last clock value
MaxTime == 3
\* length of the action list a generic controller returns
MaxActions == 2
\* the call counters of the collaborators saturate here
MaxCalls == 2

-----------------------------------------------------------------------------
(* Configuration *)

\* PMMSingleLevel.closed_executors_buffer, the class attribute store_actions_proposal reads
closed_executors_buffer == 10
\* PMMWithPositionExecutorConfig.closed_executors_buffer, as configured by the user
config_closed_executors_buffer == 1
\* PMMWithPositionExecutorConfig.executor_refresh_time, as configured by the user
executor_refresh_time == 1
\* MarketMakingStrategyConfigBase.cooldown_time, as configured by the user
cooldown_time == 2

Connectors == {"binance", "binance_perpetual"}
TradingPairs == {"ETH-USDT"}
Sides == {"BUY", "SELL"}
ExecutorTypes == {"position_executor", "dca_executor", "arbitrage_executor"}

\* the connector dictionaries a behaviour may be configured with
MarketConfigs ==
    { << [name |-> "binance_perpetual", pairs |-> <<"ETH-USDT">>] >>,
      << [name |-> "binance", pairs |-> <<"ETH-USDT">>],
         [name |-> "binance_perpetual", pairs |-> <<"ETH-USDT">>] >> }

\* "perpetual" in connector_name
is_perpetual(connector_name) == connector_name \in {"binance_perpetual"}

Min(a, b) == IF a < b THEN a ELSE b

-----------------------------------------------------------------------------
(* Executors and their read-only info *)

NoExecutor ==
    [uid |-> 0, id |-> 0, type |-> "none", side |-> "none", trading_pair |-> "none",
     exchange |-> "none", status |-> "none", timestamp |-> 0, close_timestamp |-> 0,
     stop_requested |-> FALSE]

is_active(x) == x.status \in {"Active", "Trading"}
is_trading(x) == x.status = "Trading"
is_closed(x) == x.status = "Terminated"

all_executors == position_executors \o dca_executors \o arbitrage_executors

RegistryUids == {all_executors[i].uid : i \in 1..Len(all_executors)}

ExecutorByUid(u) ==
    LET hits == SelectSeq(all_executors, LAMBDA e: e.uid = u)
    IN IF hits = <<>> THEN NoExecutor ELSE Head(hits)

\* the first executor of the three lists whose config id is executor_id, or None
get_executor_by_id(executor_id) ==
    LET hits == SelectSeq(all_executors, LAMBDA executor: executor.id = executor_id)
    IN IF hits = <<>> THEN NoExecutor ELSE Head(hits)

\* active_* and closed_* lists of the report, as one sequence of infos
get_executor_handler_report == all_executors

-----------------------------------------------------------------------------
(* Executor configs and actions *)

NoConfig ==
    [kind |-> "none", id |-> 0, timestamp |-> 0, trading_pair |-> "none",
     exchange |-> "none", side |-> "none"]

\* a config of the given kind; id 0 stands for "not given": the config generates its own
ExecutorConfig(kind, id, timestamp, trading_pair, exchange, side) ==
    [kind |-> kind, id |-> id, timestamp |-> timestamp, trading_pair |-> trading_pair,
     exchange |-> exchange, side |-> side]

PositionExecutorConfig(timestamp, trading_pair, exchange, side) ==
    ExecutorConfig("position_executor", 0, timestamp, trading_pair, exchange, side)

CreateExecutorAction(executor_config) ==
    [type |-> "create", executor_id |-> 0, config |-> executor_config]
StopExecutorAction(executor_id) ==
    [type |-> "stop", executor_id |-> executor_id, config |-> NoConfig]
StoreExecutorAction(executor_id) ==
    [type |-> "store", executor_id |-> executor_id, config |-> NoConfig]
\* an ExecutorAction that is none of the three
UnknownExecutorAction ==
    [type |-> "unknown", executor_id |-> 0, config |-> NoConfig]

NumCreates(acts) == Len(SelectSeq(acts, LAMBDA a: a.type = "create"))
NumAutoIds(acts) == Len(SelectSeq(acts, LAMBDA a: a.type = "create" /\ a.config.id = 0))

\* every config built without an id gets a fresh one, in construction order
RECURSIVE AssignIds(_, _)
AssignIds(acts, first) ==
    IF acts = <<>> THEN <<>>
    ELSE LET a == Head(acts)
         IN IF a.type = "create" /\ a.config.id = 0
            THEN <<[a EXCEPT !.config.id = first]>> \o AssignIds(Tail(acts), first + 1)
            ELSE <<a>> \o AssignIds(Tail(acts), first)

-----------------------------------------------------------------------------
(* PMMSingleLevel: the decide phase, computed on the snapshot of infos *)

\* the two len_active_* tests and appends of one trading pair of one connector
PairCreateActions(infos, connector_name, trading_pair, current_timestamp) ==
    LET active_buy_position_executors ==
            SelectSeq(infos, LAMBDA x: x.side = "BUY" /\ x.type = "position_executor"
                                       /\ is_active(x))
        active_sell_position_executors ==
            SelectSeq(infos, LAMBDA x: x.side = "SELL" /\ x.type = "position_executor"
                                       /\ is_active(x))
        len_active_buys ==
            Len(SelectSeq(active_buy_position_executors,
                          LAMBDA x: x.trading_pair = trading_pair))
        len_active_sells ==
            Len(SelectSeq(active_sell_position_executors,
                          LAMBDA x: x.trading_pair = trading_pair))
        buy == IF len_active_buys = 0
               THEN <<CreateExecutorAction(PositionExecutorConfig(
                        current_timestamp, trading_pair, connector_name, "BUY"))>>
               ELSE <<>>
        sell == IF len_active_sells = 0
                THEN <<CreateExecutorAction(PositionExecutorConfig(
                         current_timestamp, trading_pair, connector_name, "SELL"))>>
                ELSE <<>>
    IN buy \o sell

RECURSIVE PairsCreateActions(_, _, _, _)
PairsCreateActions(infos, connector_name, pairs, current_timestamp) ==
    IF pairs = <<>> THEN <<>>
    ELSE PairCreateActions(infos, connector_name, Head(pairs), current_timestamp)
         \o PairsCreateActions(infos, connector_name, Tail(pairs), current_timestamp)

RECURSIVE ConnectorsCreateActions(_, _, _)
ConnectorsCreateActions(infos, connectors, current_timestamp) ==
    IF connectors = <<>> THEN <<>>
    ELSE PairsCreateActions(infos, Head(connectors).name, Head(connectors).pairs,
                            current_timestamp)
         \o ConnectorsCreateActions(infos, Tail(connectors), current_timestamp)

create_actions_proposal(infos, current_timestamp) ==
    ConnectorsCreateActions(infos, markets, current_timestamp)

\* refresh_filter with the is_trading test forgotten
refresh_filter_ignoring_trading(x, current_timestamp) ==
    /\ is_active(x)
    /\ current_timestamp - x.timestamp > executor_refresh_time

\* the filter of executors_to_refresh
refresh_filter(x, current_timestamp) ==
    /\ ~is_trading(x)
    /\ is_active(x)
    /\ current_timestamp - x.timestamp > executor_refresh_time

executors_to_refresh(infos, current_timestamp) ==
    LET to_refresh == SelectSeq(infos, LAMBDA x: refresh_filter(x, current_timestamp))
    IN [i \in 1..Len(to_refresh) |-> StopExecutorAction(to_refresh[i].id)]

executors_to_early_stop(infos) == <<>>

stop_actions_proposal(infos, current_timestamp) ==
    executors_to_refresh(infos, current_timestamp) \o executors_to_early_stop(infos)

\* sorted(..., key=lambda x: x.timestamp, reverse=True): stable, newest timestamp first;
\* place_in_sorted is the place the sort gives the i-th element of the list
place_in_sorted(infos, i) ==
    1 + Cardinality({j \in 1..Len(infos) :
                        \/ infos[j].timestamp > infos[i].timestamp
                        \/ infos[j].timestamp = infos[i].timestamp /\ j < i})

sorted_by_timestamp_reverse(infos) ==
    [k \in 1..Len(infos) |->
        infos[CHOOSE i \in 1..Len(infos) : place_in_sorted(infos, i) = k]]

\* the buffer store_actions_proposal compares with and slices by
store_buffer == closed_executors_buffer

store_actions_proposal(infos) ==
    LET potential_executors_to_store ==
            SelectSeq(infos, LAMBDA x: x.status = "Terminated"
                                       /\ x.type = "position_executor")
        sorted_executors == sorted_by_timestamp_reverse(potential_executors_to_store)
        kept == store_buffer
    IN IF Len(sorted_executors) > kept
       THEN [i \in 1..(Len(sorted_executors) - kept) |->
                StoreExecutorAction(sorted_executors[kept + i].id)]
       ELSE <<>>

\* StrategyV2Base.determine_executor_actions: the three proposals, in this order
determine_executor_actions(infos, current_timestamp) ==
    create_actions_proposal(infos, current_timestamp)
    \o stop_actions_proposal(infos, current_timestamp)
    \o store_actions_proposal(infos)

-----------------------------------------------------------------------------
(* MarketMakingStrategyBase: the conditions on one executor *)

\* position_config.timestamp + order_refresh_time > time.time() -> False, else True
refresh_order_condition(executor, order_refresh_time, time) ==
    IF executor.timestamp + order_refresh_time > time THEN FALSE ELSE TRUE

\* position_config.timestamp + cooldown_time > time.time() -> True, else False
cooldown_condition(executor, time) ==
    IF executor.timestamp + cooldown_time > time THEN TRUE ELSE FALSE

-----------------------------------------------------------------------------
(* GenericExecutor.execute_actions: one iteration of its loop per step *)

NoEffect == [op |-> "none", uid |-> 0]

Bump(calls, key) == [calls EXCEPT ![key] = Min(@ + 1, MaxCalls)]

\* the executor object create_executor builds and starts
NewExecutor(executor_config, uid) ==
    [uid |-> uid, id |-> executor_config.id, type |-> executor_config.kind,
     side |-> executor_config.side, trading_pair |-> executor_config.trading_pair,
     exchange |-> executor_config.exchange, status |-> "Active",
     timestamp |-> executor_config.timestamp, close_timestamp |-> 0,
     stop_requested |-> FALSE]

\* list.remove(executor): the list without its first element equal to executor
ListRemove(list, executor) ==
    LET at == {i \in 1..Len(list) : list[i] = executor}
        first == CHOOSE i \in at : \A j \in at : i <= j
    IN SubSeq(list, 1, first - 1) \o SubSeq(list, first + 1, Len(list))

InList(list, executor) == \E i \in 1..Len(list) : list[i] = executor

\* an executor's own state changes, in whichever list holds it
SetExecutor(list, uid, new) ==
    [i \in 1..Len(list) |-> IF list[i].uid = uid THEN new ELSE list[i]]

\* the loop goes on to the next action, or ends with the list
Continue(action) ==
    /\ applied' = Append(applied, action)
    /\ idx' = idx + 1
    /\ pc' = IF idx = Len(actions) THEN "return" ELSE "execute"
    /\ UNCHANGED raised

\* an exception leaves the loop and the tick
Raise ==
    /\ pc' = "return"
    /\ raised' = TRUE
    /\ UNCHANGED <<applied, idx>>

\* create_executor with executor.start() forgotten
create_executor_without_start(executor_config) ==
    LET executor == NewExecutor(executor_config, next_uid)
    IN /\ position_executors' = IF executor_config.kind = "position_executor"
                                THEN Append(position_executors, executor)
                                ELSE position_executors
       /\ dca_executors' = IF executor_config.kind = "dca_executor"
                           THEN Append(dca_executors, executor)
                           ELSE dca_executors
       /\ arbitrage_executors' = IF executor_config.kind = "arbitrage_executor"
                                 THEN Append(arbitrage_executors, executor)
                                 ELSE arbitrage_executors
       /\ effect' = NoEffect
       /\ next_uid' = IF executor_config.kind \in ExecutorTypes THEN next_uid + 1 ELSE next_uid

\* isinstance(executor_config, ...) of create_executor: the list the executor goes to
create_executor(executor_config) ==
    LET executor == NewExecutor(executor_config, next_uid)
    IN CASE executor_config.kind = "position_executor" ->
                /\ position_executors' = Append(position_executors, executor)
                /\ effect' = [op |-> "start", uid |-> next_uid]
                /\ next_uid' = next_uid + 1
                /\ UNCHANGED <<dca_executors, arbitrage_executors>>
         [] executor_config.kind = "dca_executor" ->
                /\ dca_executors' = Append(dca_executors, executor)
                /\ effect' = [op |-> "start", uid |-> next_uid]
                /\ next_uid' = next_uid + 1
                /\ UNCHANGED <<position_executors, arbitrage_executors>>
         [] executor_config.kind = "arbitrage_executor" ->
                /\ arbitrage_executors' = Append(arbitrage_executors, executor)
                /\ effect' = [op |-> "start", uid |-> next_uid]
                /\ next_uid' = next_uid + 1
                /\ UNCHANGED <<position_executors, dca_executors>>
         [] OTHER ->
                /\ effect' = NoEffect
                /\ UNCHANGED <<position_executors, dca_executors, arbitrage_executors,
                               next_uid>>

ExecuteCreate ==
    /\ pc = "execute"
    /\ actions[idx].type = "create"
    /\ create_executor(actions[idx].config)
    /\ Continue(actions[idx])
    /\ UNCHANGED <<marroq_vars, controller_stopped, framework, markets, now, report, provider_ready, decided, actions, stored, next_id, started,
                   account_config_set, position_mode_calls, leverage_calls>>

\* stop_condition with the is_active test forgotten
stop_condition_any_status(executor) == executor # NoExecutor

\* executor and executor.is_active
stop_condition(executor) == executor # NoExecutor /\ is_active(executor)

\* executor.early_stop(): a request; the executor terminates on its own schedule
early_stop(executor) ==
    LET new == [executor EXCEPT !.stop_requested = TRUE]
    IN /\ position_executors' = SetExecutor(position_executors, executor.uid, new)
       /\ dca_executors' = SetExecutor(dca_executors, executor.uid, new)
       /\ arbitrage_executors' = SetExecutor(arbitrage_executors, executor.uid, new)

ExecuteStop ==
    /\ pc = "execute"
    /\ actions[idx].type = "stop"
    /\ LET executor == get_executor_by_id(actions[idx].executor_id)
       IN IF stop_condition(executor)
          THEN /\ early_stop(executor)
               /\ effect' = [op |-> "early_stop", uid |-> executor.uid]
          ELSE /\ effect' = NoEffect
               /\ UNCHANGED <<position_executors, dca_executors, arbitrage_executors>>
    /\ Continue(actions[idx])
    /\ UNCHANGED <<marroq_vars, controller_stopped, framework, markets, now, report, provider_ready, decided, actions, stored, next_id, next_uid,
                   started, account_config_set, position_mode_calls, leverage_calls>>

\* store_condition with the is_closed test forgotten
store_condition_any_status(executor) == executor # NoExecutor

\* executor and executor.is_closed
store_condition(executor) == executor # NoExecutor /\ is_closed(executor)

\* self.dca_executors.remove(executor) finds the executor
remove_finds(executor) == InList(dca_executors, executor)

ExecuteStore ==
    /\ pc = "execute"
    /\ actions[idx].type = "store"
    /\ LET executor == get_executor_by_id(actions[idx].executor_id)
       IN IF store_condition(executor)
          THEN /\ stored' = Bump(stored, executor.uid)
               /\ effect' = [op |-> "store_executor", uid |-> executor.uid]
               /\ IF remove_finds(executor)
                  THEN /\ dca_executors' = ListRemove(dca_executors, executor)
                       /\ Continue(actions[idx])
                  ELSE /\ UNCHANGED dca_executors
                       /\ Raise
          ELSE /\ effect' = NoEffect
               /\ UNCHANGED <<stored, dca_executors>>
               /\ Continue(actions[idx])
    /\ UNCHANGED <<marroq_vars, controller_stopped, framework, markets, now, position_executors, arbitrage_executors,
                   report, provider_ready, decided, actions, next_id, next_uid, started, account_config_set,
                   position_mode_calls, leverage_calls>>

\* the else branch with the raise forgotten: the action is passed over
unknown_action_ignored == Continue(actions[idx])

\* else: raise ValueError(f"Unknown action type {type(action)}")
unknown_action_branch == Raise

ExecuteUnknown ==
    /\ pc = "execute"
    /\ actions[idx].type \notin {"create", "stop", "store"}
    /\ effect' = NoEffect
    /\ unknown_action_branch
    /\ UNCHANGED <<marroq_vars, controller_stopped, framework, markets, now, position_executors, dca_executors,
                   arbitrage_executors, report, provider_ready, decided, actions, stored, next_id, next_uid,
                   started, account_config_set, position_mode_calls, leverage_calls>>

execute_actions == ExecuteCreate \/ ExecuteStop \/ ExecuteStore \/ ExecuteUnknown

\* control_task / on_tick returns, normally or by the exception: its locals are gone
Return ==
    /\ pc = "return"
    /\ pc' = "idle"
    /\ report' = <<>>
    /\ provider_ready' = FALSE
    /\ decided' = FALSE
    /\ actions' = <<>>
    /\ idx' = 1
    /\ applied' = <<>>
    /\ raised' = FALSE
    /\ effect' = NoEffect
    /\ price' = 1
    /\ amount' = 1
    /\ high_clusters' = <<>>
    /\ low_clusters' = <<>>
    /\ UNCHANGED <<stage, dca_levels, dca_amounts_distribution, candles, prominence,
                   high_peak_prices, low_peak_prices, trade_type, returned_config, error>>
    /\ UNCHANGED <<controller_stopped, framework, markets, now, position_executors, dca_executors,
                   arbitrage_executors, stored, next_id, next_uid, started,
                   account_config_set, position_mode_calls, leverage_calls>>

-----------------------------------------------------------------------------
(* The executors' own progress and the clock, between the steps of a tick *)

\* the loop of execute_actions, and the whole of on_tick, run without yielding
Yielded == pc \in {"idle", "report"}

ExecutorStep(uid, new) ==
    /\ position_executors' = SetExecutor(position_executors, uid, new)
    /\ dca_executors' = SetExecutor(dca_executors, uid, new)
    /\ arbitrage_executors' = SetExecutor(arbitrage_executors, uid, new)
    /\ UNCHANGED <<marroq_vars, controller_stopped, framework, markets, now, pc, report, provider_ready, decided, actions, idx, applied, raised,
                   effect, stored, next_id, next_uid, started, account_config_set,
                   position_mode_calls, leverage_calls>>

\* Active -> Trading: the executor's first order is live or filled
StartTrading ==
    /\ Yielded
    /\ \E uid \in RegistryUids :
          LET executor == ExecutorByUid(uid)
          IN /\ executor.status = "Active"
             /\ ExecutorStep(uid, [executor EXCEPT !.status = "Trading"])

\* -> Terminated: barriers hit, or the early stop asked for has been carried out
Terminate ==
    /\ Yielded
    /\ \E uid \in RegistryUids :
          LET executor == ExecutorByUid(uid)
          IN /\ is_active(executor)
             /\ ExecutorStep(uid, [executor EXCEPT !.status = "Terminated",
                                                   !.close_timestamp = now])

\* the clock is read by PMMSingleLevel alone (current_timestamp): GenericExecutor's
\* report carries a timestamp that execute_actions never reads
AdvanceTime ==
    /\ framework = "strategy_v2"
    /\ Yielded
    /\ now < MaxTime
    /\ now' = now + 1
    /\ UNCHANGED <<marroq_vars, controller_stopped, framework, markets, position_executors, dca_executors,
                   arbitrage_executors, pc, report, provider_ready, decided, actions, idx, applied, raised, effect,
                   stored, next_id, next_uid, started, account_config_set,
                   position_mode_calls, leverage_calls>>

-----------------------------------------------------------------------------
(* GenericExecutor: start-up and the control task *)

\* controller.config.exchange and controller.config.trading_pair
controller_exchange == markets[1].name
controller_trading_pair == markets[1].pairs[1]

\* set_leverage_and_position_mode, on the controller's connector
set_leverage_and_position_mode ==
    /\ position_mode_calls' = Bump(position_mode_calls, controller_exchange)
    /\ leverage_calls' = Bump(leverage_calls, <<controller_exchange, controller_trading_pair>>)

\* on_start: run once by the handler's control loop before its first control task
on_start ==
    /\ framework = "generic"
    /\ ~started
    /\ started' = TRUE
    /\ IF is_perpetual(controller_exchange)
       THEN set_leverage_and_position_mode
       ELSE UNCHANGED <<position_mode_calls, leverage_calls>>
    /\ UNCHANGED <<marroq_vars, controller_stopped, framework, markets, now, position_executors, dca_executors,
                   arbitrage_executors, pc, report, provider_ready, decided, actions, idx, applied, raised, effect,
                   stored, next_id, next_uid, account_config_set>>

\* control_task, up to its first await: the report of the executors
TakeReport ==
    /\ framework = "generic"
    /\ started
    /\ pc = "idle"
    /\ report' = get_executor_handler_report
    /\ provider_ready' = FALSE
    /\ decided' = FALSE
    /\ pc' = "report"
    /\ actions' = <<>>
    /\ idx' = 1
    /\ applied' = <<>>
    /\ raised' = FALSE
    /\ effect' = NoEffect
    /\ UNCHANGED <<marroq_vars, controller_stopped, framework, markets, now, position_executors, dca_executors,
                   arbitrage_executors, stored, next_id, next_uid, started,
                   account_config_set, position_mode_calls, leverage_calls>>

\* the ids a controller may name: every id generated so far and one that never was
TargetIds == 1..Min(next_id, MaxControllerCreates)

\* the configs of the executors of the report: a controller may submit one again
ReportConfigs ==
    {ExecutorConfig(report[i].type, report[i].id, report[i].timestamp,
                    report[i].trading_pair, report[i].exchange, report[i].side) :
        i \in 1..Len(report)}

\* the actions a controller may return: the controller is any GenericController
ControllerActions ==
    {CreateExecutorAction(ExecutorConfig(kind, 0, now, controller_trading_pair,
                                         controller_exchange, "BUY")) :
        kind \in ExecutorTypes \cup {"other"}}
    \cup {CreateExecutorAction(config) : config \in ReportConfigs}
    \cup {StopExecutorAction(id) : id \in TargetIds}
    \cup {StoreExecutorAction(id) : id \in TargetIds}
    \cup {UnknownExecutorAction}

ControllerActionLists == UNION {[1..n -> ControllerActions] : n \in 0..MaxActions}

\* control_task from controller.determine_actions() to the call of execute_actions
determine_actions ==
    /\ framework = "generic"
    /\ pc = "report"
    /\ \E acts \in ControllerActionLists :
          /\ next_uid + NumCreates(acts) - 1 <= MaxControllerCreates
          /\ next_id + NumAutoIds(acts) - 1 <= MaxControllerCreates
          /\ actions' = AssignIds(acts, next_id)
          /\ next_id' = next_id + NumAutoIds(acts)
          /\ pc' = IF acts = <<>> THEN "return" ELSE "execute"
    /\ decided' = TRUE
    /\ UNCHANGED <<marroq_vars, controller_stopped, framework, markets, now, position_executors, dca_executors,
                   arbitrage_executors, report, provider_ready, idx, applied, raised, effect, stored,
                   next_uid, started, account_config_set, position_mode_calls,
                   leverage_calls>>

-----------------------------------------------------------------------------
(* PMMSingleLevel.on_tick *)

ConnectorNames == {markets[i].name : i \in 1..Len(markets)}

get_trading_pairs(connector_name) ==
    UNION {{markets[i].pairs[j] : j \in 1..Len(markets[i].pairs)} :
              i \in {k \in 1..Len(markets) : markets[k].name = connector_name}}

\* connectors_to_configure with the account_config_set test forgotten
connectors_to_configure_every_tick == {c \in ConnectorNames : is_perpetual(c)}

\* the connectors set_position_mode_and_leverage configures in this call
connectors_to_configure ==
    IF ~account_config_set
    THEN {c \in ConnectorNames : is_perpetual(c)}
    ELSE {}

set_position_mode_and_leverage ==
    /\ position_mode_calls' =
          [c \in Connectors |->
              IF c \in connectors_to_configure
              THEN Min(position_mode_calls[c] + 1, MaxCalls)
              ELSE position_mode_calls[c]]
    /\ leverage_calls' =
          [k \in Connectors \X TradingPairs |->
              IF k[1] \in connectors_to_configure /\ k[2] \in get_trading_pairs(k[1])
              THEN Min(leverage_calls[k] + 1, MaxCalls)
              ELSE leverage_calls[k]]
    /\ account_config_set' = TRUE

\* decide_runs with the readiness test forgotten
decide_runs_unconditionally(ready) == TRUE

\* if self.market_data_provider.ready
decide_runs(ready) == ready

\* ready is market_data_provider.ready; the loop over the actions follows in execute_actions
on_tick(ready) ==
    /\ framework = "strategy_v2"
    /\ pc = "idle"
    /\ set_position_mode_and_leverage
    /\ report' = get_executor_handler_report
    /\ provider_ready' = ready
    /\ decided' = decide_runs(ready)
    /\ idx' = 1
    /\ applied' = <<>>
    /\ raised' = FALSE
    /\ effect' = NoEffect
    /\ IF decide_runs(ready)
       THEN LET executor_actions == determine_executor_actions(report', now)
            IN /\ next_id + NumAutoIds(executor_actions) - 1 <= MaxExecutors
               /\ actions' = AssignIds(executor_actions, next_id)
               /\ next_id' = next_id + NumAutoIds(executor_actions)
               /\ pc' = IF executor_actions = <<>> THEN "return" ELSE "execute"
       ELSE /\ actions' = <<>>
            /\ pc' = "return"
            /\ UNCHANGED next_id
    /\ UNCHANGED <<marroq_vars, controller_stopped, framework, markets, now, position_executors, dca_executors,
                   arbitrage_executors, stored, next_uid, started>>

OnTick == \E ready \in BOOLEAN : on_tick(ready)

-----------------------------------------------------------------------------
(* MarroqController: level discovery and the DCA ladder                      *)
(*                                                                           *)
(* Prices are integers; a centroid is the mean of the peaks of one label,    *)
(* kept as the fraction sum/count, and count = 0 is the NaN numpy returns    *)
(* for the mean of an empty selection.                                       *)

MaxPrice == 4
MaxPeaks == 2
MaxLevels == 2
MaxWeights == 3
MaxWeight == 1
MaxAmount == 1

\* cluster_prominence: float = Field(default=0.02), in hundredths
cluster_prominence == 2

Prices == 1..MaxPrice

Fraction(n, d) == [num |-> n, den |-> d]
NaN == Fraction(0, 0)
IsNaN(c) == c.den = 0
\* Decimal(x) of an integer price
Decimal(x) == Fraction(x, 1)
Less(a, b) == a.num * b.den < b.num * a.den

RECURSIVE SumSeq(_)
SumSeq(s) == IF s = <<>> THEN 0 ELSE Head(s) + SumSeq(Tail(s))

SeqsUpTo(S, n) == UNION {[1..m -> S] : m \in 0..n}

\* candles['high'].max() and candles['low'].min() of a window of bars
Windows == {w \in [high_max : Prices, low_min : Prices] : w.low_min <= w.high_max}

\* config.dca_amounts_distribution: at least one weight, their sum is not zero
WeightLists ==
    {d \in SeqsUpTo(0..MaxWeight, MaxWeights) : d # <<>> /\ SumSeq(d) > 0}

NoConfigBuilt ==
    [side |-> "none", prices |-> <<>>, amounts_quote |-> <<>>, breakeven_price |-> NaN,
     activation_price |-> NaN]

\* price_range = candles['high'].max() - candles['low'].min()
price_range(c) == c.high_max - c.low_min

\* return price_range * prominence_percentage
calculate_prominence(c, prominence_percentage) ==
    price_range(c) * prominence_percentage

\* scipy.signal.find_peaks over candles['high'] or candles['low']: some bars of the
\* window, in time order; the model takes any prices within the window's range
PeakPrices(c) == SeqsUpTo(c.low_min..c.high_max, MaxPeaks)

\* fcluster(Z, num_clusters, criterion='maxclust'): every peak gets a label; the labels
\* used are 1..m for some m that is at most num_clusters and at most the number of peaks
Labelings(peaks, num_clusters) ==
    {l \in [1..Len(peaks) -> 1..num_clusters] :
        \E m \in 1..num_clusters : {l[i] : i \in 1..Len(peaks)} = 1..m}

\* peaks[labels == k].mean()
mean(peaks, labels, k) ==
    LET members == SelectSeq([i \in 1..Len(peaks) |-> IF labels[i] = k THEN peaks[i] ELSE 0],
                             LAMBDA p : p # 0)
    IN Fraction(SumSeq(members), Len(members))

\* centroids = [peaks[labels == k].mean() for k in range(1, num_clusters + 1)]
centroids(peaks, labels, num_clusters) ==
    [k \in 1..num_clusters |-> mean(peaks, labels, k)]

\* linkage(peaks.reshape(-1, 1), method='ward') raises ValueError for fewer than two
\* observations
linkage_raises(peaks) == Len(peaks) < 2

\* [c for c in high_clusters if c > price]
relevant_high_clusters(p) == SelectSeq(high_clusters, LAMBDA c : Less(Decimal(p), c))
\* [c for c in low_clusters if c < price]
relevant_low_clusters(p) == SelectSeq(low_clusters, LAMBDA c : Less(c, Decimal(p)))

\* the comparison of a NaN centroid with the Decimal price raises InvalidOperation
comparison_raises ==
    \E i \in 1..Len(high_clusters \o low_clusters) : IsNaN((high_clusters \o low_clusters)[i])

\* relevant_low_clusters if trade_type == TradeType.BUY else relevant_high_clusters
selected_clusters(tt, p) ==
    IF tt = "BUY" THEN relevant_low_clusters(p) ELSE relevant_high_clusters(p)

\* if len(selected_clusters) + 1 < len(self.dca_amounts_pct): the first
\* len(selected_clusters) + 1 weights, else all of them (as weights of the distribution;
\* dca_amounts_pct divides each by their sum)
adjusted_amounts(distribution, selected) ==
    IF Len(selected) + 1 < Len(distribution)
    THEN SubSeq(distribution, 1, Len(selected) + 1)
    ELSE distribution

\* [price] + [Decimal(cluster_level) for cluster_level in selected_clusters]
ladder_prices(p, selected) == <<Decimal(p)>> \o selected

\* [amount * pct * price for pct, price in zip(adjusted_amounts_pct, prices)]
ladder_amounts_quote(a, distribution, adjusted, prices) ==
    [i \in 1..Min(Len(adjusted), Len(prices)) |->
        Fraction(a * adjusted[i] * prices[i].num, SumSeq(distribution) * prices[i].den)]

\* a division that returns a value for a zero divisor
breakeven_never_raises(amounts) == FALSE
\* sum(amounts_quote) is zero: the division of line 163 raises
breakeven_raises(amounts) == \A i \in 1..Len(amounts) : amounts[i].num = 0

\* min and max that return a value for an empty list
stop_loss_never_raises(selected) == FALSE
\* min(selected_clusters) or max(selected_clusters) of an empty list raises ValueError
stop_loss_raises(selected) == selected = <<>>

\* min(relevant_high_clusters) for a buy, max(relevant_low_clusters) for a sell, of an
\* empty list raises ValueError
trailing_stop_raises(tt, p) ==
    IF tt = "BUY" THEN relevant_high_clusters(p) = <<>> ELSE relevant_low_clusters(p) = <<>>

\* the exception get_executor_config raises after the clusters are found, "none" if it
\* returns
build_error(tt, p, a) ==
    LET selected == selected_clusters(tt, p)
        adjusted == adjusted_amounts(dca_amounts_distribution, selected)
        prices == ladder_prices(p, selected)
        amounts_quote == ladder_amounts_quote(a, dca_amounts_distribution, adjusted, prices)
    IN IF comparison_raises THEN "InvalidOperation"
       ELSE IF breakeven_raises(amounts_quote) THEN "InvalidOperation"
       ELSE IF stop_loss_raises(selected) THEN "ValueError"
       ELSE IF trailing_stop_raises(tt, p) THEN "ValueError"
       ELSE "none"

Plus(a, b) == Fraction(a.num * b.den + b.num * a.den, a.den * b.den)
Minus(a, b) == Fraction(a.num * b.den - b.num * a.den, a.den * b.den)
Times(a, b) == Fraction(a.num * b.num, a.den * b.den)
\* a / b for a positive b
Over(a, b) == Fraction(a.num * b.den, a.den * b.num)

RECURSIVE SumFractions(_)
SumFractions(s) == IF s = <<>> THEN Decimal(0) ELSE Plus(Head(s), SumFractions(Tail(s)))

\* min(...) and max(...) of a non-empty list
min(s) == s[CHOOSE i \in 1..Len(s) : \A j \in 1..Len(s) : ~Less(s[j], s[i])]
max(s) == s[CHOOSE i \in 1..Len(s) : \A j \in 1..Len(s) : ~Less(s[i], s[j])]

\* the numerator of the breakeven price alone, the division forgotten
breakeven_price_undivided(prices, amounts) ==
    SumFractions([i \in 1..Min(Len(prices), Len(amounts)) |-> Times(prices[i], amounts[i])])
\* sum(p * a for p, a in zip(prices, amounts_quote)) / sum(amounts_quote)
breakeven_price(prices, amounts) ==
    Over(SumFractions([i \in 1..Min(Len(prices), Len(amounts)) |->
                           Times(prices[i], amounts[i])]),
         SumFractions(amounts))

\* Decimal(min(relevant_high_clusters)) for a buy, Decimal(max(relevant_low_clusters))
\* for a sell
trailing_stop_price(tt, p) ==
    IF tt = "BUY" THEN min(relevant_high_clusters(p)) ELSE max(relevant_low_clusters(p))

\* the distance |price - trailing_stop_price| / price
activation_distance(tt, p) ==
    IF tt = "BUY"
    THEN Over(Minus(trailing_stop_price(tt, p), Decimal(p)), Decimal(p))
    ELSE Over(Minus(Decimal(p), trailing_stop_price(tt, p)), Decimal(p))
\* activation_price=(price - trailing_stop_price) / price
activation_price(tt, p) == Over(Minus(Decimal(p), trailing_stop_price(tt, p)), Decimal(p))

\* DCAExecutorConfig(prices=prices, amounts_quote=amounts_quote, side=trade_type,
\* trailing_stop=TrailingStop(activation_price=...), ...); breakeven_price is the local
\* the stop loss is computed from
DCAExecutorConfig(tt, p, a) ==
    LET selected == selected_clusters(tt, p)
        adjusted == adjusted_amounts(dca_amounts_distribution, selected)
        prices == ladder_prices(p, selected)
        amounts_quote == ladder_amounts_quote(a, dca_amounts_distribution, adjusted, prices)
    IN [side |-> tt,
        prices |-> prices,
        amounts_quote |-> amounts_quote,
        breakeven_price |-> breakeven_price(prices, amounts_quote),
        activation_price |-> activation_price(tt, p)]

orchestration_vars ==
    <<controller_stopped, framework, markets, now, position_executors, dca_executors, arbitrage_executors,
      pc, report, provider_ready, decided, actions, idx, applied, raised, effect, stored,
      next_id, next_uid, started, account_config_set, position_mode_calls, leverage_calls>>

\* get_executor_config is called for a level and reads the candles
get_candles_df ==
    /\ stage = "start"
    /\ trade_type' \in Sides
    /\ price' \in Prices
    /\ amount' \in 1..MaxAmount
    /\ candles' \in Windows
    /\ stage' = "candles"
    /\ UNCHANGED orchestration_vars
    /\ UNCHANGED <<dca_levels, dca_amounts_distribution, prominence, high_peak_prices,
                   low_peak_prices, high_clusters, low_clusters, returned_config, error>>

\* prominence = calculate_prominence(candles, prominence_percentage=...)
CalculateProminence ==
    /\ stage = "candles"
    /\ prominence' = calculate_prominence(candles, cluster_prominence)
    /\ stage' = "prominence"
    /\ UNCHANGED orchestration_vars
    /\ UNCHANGED <<dca_levels, dca_amounts_distribution, candles, high_peak_prices,
                   low_peak_prices, high_clusters, low_clusters, trade_type, price, amount,
                   returned_config, error>>

\* high_peaks, low_peaks = find_price_peaks(candles, prominence, distance=distance)
find_price_peaks ==
    /\ stage = "prominence"
    /\ high_peak_prices' \in PeakPrices(candles)
    /\ low_peak_prices' \in PeakPrices(candles)
    /\ stage' = "peaks"
    /\ UNCHANGED orchestration_vars
    /\ UNCHANGED <<dca_levels, dca_amounts_distribution, candles, prominence, high_clusters,
                   low_clusters, trade_type, price, amount, returned_config, error>>

\* hierarchical_clustering of the high peaks, then of the low peaks, with
\* num_clusters = config.dca_levels + 1
hierarchical_clustering ==
    /\ stage = "peaks"
    /\ IF linkage_raises(high_peak_prices) \/ linkage_raises(low_peak_prices)
       THEN /\ error' = "ValueError"
            /\ stage' = "raised"
            /\ UNCHANGED <<high_clusters, low_clusters>>
       ELSE /\ \E labels \in Labelings(high_peak_prices, dca_levels + 1) :
                  high_clusters' = centroids(high_peak_prices, labels, dca_levels + 1)
            /\ \E labels \in Labelings(low_peak_prices, dca_levels + 1) :
                  low_clusters' = centroids(low_peak_prices, labels, dca_levels + 1)
            /\ stage' = "clusters"
            /\ UNCHANGED error
    /\ high_peak_prices' = <<>>
    /\ low_peak_prices' = <<>>
    /\ UNCHANGED orchestration_vars
    /\ UNCHANGED <<dca_levels, dca_amounts_distribution, candles, prominence, trade_type,
                   price, amount, returned_config>>

\* lines 144-189 of get_executor_config: the ladder, or the exception
build_config ==
    /\ stage = "clusters"
    /\ error' = build_error(trade_type, price, amount)
    /\ IF build_error(trade_type, price, amount) = "none"
       THEN /\ returned_config' = DCAExecutorConfig(trade_type, price, amount)
            /\ stage' = "returned"
       ELSE /\ stage' = "raised"
            /\ UNCHANGED returned_config
    /\ UNCHANGED orchestration_vars
    /\ UNCHANGED <<dca_levels, dca_amounts_distribution, candles, prominence,
                   high_peak_prices, low_peak_prices, high_clusters, low_clusters,
                   trade_type, price, amount>>

\* no call of get_executor_config is under way
NoCall ==
    /\ stage = "start"
    /\ candles = [high_max |-> 1, low_min |-> 1]
    /\ prominence = 0
    /\ high_peak_prices = <<>>
    /\ low_peak_prices = <<>>
    /\ high_clusters = <<>>
    /\ low_clusters = <<>>
    /\ trade_type = "BUY"
    /\ price = 1
    /\ amount = 1
    /\ returned_config = NoConfigBuilt
    /\ error = "none"

\* the controller's configuration of the orchestration runs, whose controller is any
\* controller
NoMarroqConfig == dca_levels = 1 /\ dca_amounts_distribution = <<1>>

-----------------------------------------------------------------------------
(* Specifications *)

InitCommon ==
    /\ markets \in MarketConfigs
    /\ controller_stopped = FALSE
    /\ now = 0
    /\ position_executors = <<>>
    /\ dca_executors = <<>>
    /\ arbitrage_executors = <<>>
    /\ pc = "idle"
    /\ report = <<>>
    /\ provider_ready = FALSE
    /\ decided = FALSE
    /\ actions = <<>>
    /\ idx = 1
    /\ applied = <<>>
    /\ raised = FALSE
    /\ effect = NoEffect
    /\ stored = [u \in 1..(MaxExecutors + 1) |-> 0]
    /\ next_id = 1
    /\ next_uid = 1
    /\ started = FALSE
    /\ account_config_set = FALSE
    /\ position_mode_calls = [c \in Connectors |-> 0]
    /\ leverage_calls = [k \in Connectors \X TradingPairs |-> 0]

\* the program is a GenericExecutor with some controller, or the PMMSingleLevel strategy
Init == framework \in {"generic", "strategy_v2"} /\ InitCommon /\ NoMarroqConfig /\ NoCall

Next ==
    \/ on_start
    \/ TakeReport
    \/ determine_actions
    \/ OnTick
    \/ execute_actions
    \/ Return
    \/ StartTrading
    \/ Terminate
    \/ AdvanceTime

Spec == Init /\ [][Next]_vars

\* one call of MarroqController.get_executor_config, on any configuration, window of
\* candles, level and reference price
InitBuild ==
    /\ framework = "marroq"
    /\ InitCommon
    /\ markets = << [name |-> "binance_perpetual", pairs |-> <<"ETH-USDT">>] >>
    /\ dca_levels \in 1..MaxLevels
    /\ dca_amounts_distribution \in WeightLists
    /\ NoCall

NextBuild ==
    \/ get_candles_df
    \/ CalculateProminence
    \/ find_price_peaks
    \/ hierarchical_clustering
    \/ build_config

BuildSpec == InitBuild /\ [][NextBuild]_vars

-----------------------------------------------------------------------------
(* Properties *)

Registry == <<position_executors, dca_executors, arbitrage_executors>>

\* the action execute_actions is about to apply, and the executor its id names
CurrentAction == actions[idx]
TargetsOf(executor_id) ==
    {i \in 1..Len(all_executors) : all_executors[i].id = executor_id}
TargetOf(executor_id) ==
    IF TargetsOf(executor_id) = {} THEN NoExecutor
    ELSE all_executors[CHOOSE i \in TargetsOf(executor_id) :
                          \A j \in TargetsOf(executor_id) : i <= j]
LastApplied == applied[Len(applied)]
PMMDecided == framework = "strategy_v2" /\ decided

\* C1: over any sequence of ticks the persistence collaborator's store is invoked at
\* most once for an executor, whatever its kind.
C1_StoredAtMostOnce == \A uid \in DOMAIN stored : stored[uid] <= 1

\* C2: Store is all-or-nothing: an executor that a Store action has handed to
\* persistence is no longer in the registry when that action has finished.
C2_StoreAllOrNothing ==
    effect.op = "store_executor" => effect.uid \notin RegistryUids

\* C3: a Store whose target is in the registry and not Terminated invokes no
\* persistence and leaves the three executor lists as they were.
C3_StoreOfLiveExecutorRejected ==
    [][(/\ pc = "execute"
        /\ CurrentAction.type = "store"
        /\ TargetOf(CurrentAction.executor_id) # NoExecutor
        /\ TargetOf(CurrentAction.executor_id).status # "Terminated")
       => (/\ stored' = stored
           /\ Registry' = Registry
           /\ effect'.op # "store_executor")]_vars

\* C3 witness: a Store aimed at an executor that is still Active or Trading has just
\* been applied.
C3_Witness ==
    /\ pc \in {"execute", "return"}
    /\ applied # <<>>
    /\ LastApplied.type = "store"
    /\ TargetOf(LastApplied.executor_id).status \in {"Active", "Trading"}
    /\ effect = NoEffect

\* the Terminated position executors of the snapshot, by index
TerminatedInReport ==
    {i \in 1..Len(report) : report[i].status = "Terminated"}
StoreActions == SelectSeq(actions, LAMBDA a: a.type = "store")
StopActions == SelectSeq(actions, LAMBDA a: a.type = "stop")
CreateActions == SelectSeq(actions, LAMBDA a: a.type = "create")

\* C4: with N Terminated executors in the snapshot and B the closed_executors_buffer of
\* the strategy config, the decide phase emits Store for exactly the N-B executors that
\* terminated first when N > B, and no Store when N <= B.
C4_StoreBeyondConfiguredBuffer ==
    PMMDecided =>
        LET N == Cardinality(TerminatedInReport)
            B == config_closed_executors_buffer
        IN IF N > B
           THEN /\ Len(StoreActions) = N - B
                /\ \E oldest \in SUBSET TerminatedInReport :
                      /\ Cardinality(oldest) = N - B
                      /\ \A i \in oldest : \A j \in TerminatedInReport \ oldest :
                            report[i].close_timestamp <= report[j].close_timestamp
                      /\ {StoreActions[k].executor_id : k \in 1..Len(StoreActions)}
                            = {report[i].id : i \in oldest}
           ELSE StoreActions = <<>>

\* C5: the decide phase emits exactly one Create for a side and trading pair without an
\* active executor in the snapshot, none for one with an active executor, and never two
\* for the same side and pair.
C5_OneCreatePerSideAndPair ==
    PMMDecided =>
        \A side \in Sides : \A trading_pair \in TradingPairs :
            LET creates == SelectSeq(CreateActions,
                               LAMBDA a: /\ a.config.side = side
                                         /\ a.config.trading_pair = trading_pair)
                has_active == \E i \in 1..Len(report) :
                                 /\ report[i].status \in {"Active", "Trading"}
                                 /\ report[i].side = side
                                 /\ report[i].trading_pair = trading_pair
            IN Len(creates) = IF has_active THEN 0 ELSE 1

\* C6: no Create is emitted for a side and trading pair in a tick earlier than T +
\* cooldown_time, T being the termination timestamp of an executor of that side and
\* pair; and the cooldown test holds for every executor during that interval.
C6_NoCreateDuringCooldown ==
    PMMDecided =>
        \A i \in TerminatedInReport :
            now < report[i].close_timestamp + cooldown_time =>
                /\ cooldown_condition(report[i], now)
                /\ \A k \in 1..Len(CreateActions) :
                      ~(/\ CreateActions[k].config.side = report[i].side
                        /\ CreateActions[k].config.trading_pair = report[i].trading_pair)

\* the executors of the snapshot the refresh rule is about, by index
StaleInReport ==
    {i \in 1..Len(report) :
        /\ report[i].status = "Active"
        /\ now - report[i].timestamp > executor_refresh_time}

\* C7: the decide phase emits a Stop for exactly the executors of the snapshot that are
\* active, not trading, and older than the refresh timeout: one Stop each, none for a
\* Trading or Terminated executor.
C7_RefreshStopsExactlyStale ==
    PMMDecided =>
        /\ Len(StopActions) = Cardinality(StaleInReport)
        /\ {StopActions[k].executor_id : k \in 1..Len(StopActions)}
              = {report[i].id : i \in StaleInReport}

\* C7 witness: a tick emits a refresh Stop while an executor just as old, but Trading,
\* is in the snapshot.
C7_Witness ==
    /\ PMMDecided
    /\ StopActions # <<>>
    /\ \E i \in 1..Len(report) :
          /\ report[i].status = "Trading"
          /\ now - report[i].timestamp > executor_refresh_time

\* C8: when a tick ends, every Create, Stop and Store it decided has been applied,
\* once and in emission order.
C8_EveryDecidedActionApplied ==
    (/\ pc = "return"
     /\ \A k \in 1..Len(actions) : actions[k].type \in {"create", "stop", "store"})
    => applied = actions

\* C9: a Stop invokes early_stop on its target exactly when the target is in the
\* registry and active at apply time, and then changes nothing but the target's stop
\* request; otherwise it changes nothing; it never raises, so the tick goes on; and an
\* executor that is Terminated stays Terminated.
C9_StopOnlyWhenActive ==
    [][/\ (pc = "execute" /\ CurrentAction.type = "stop") =>
            LET target == TargetOf(CurrentAction.executor_id)
            IN /\ ~raised'
               /\ applied' = Append(applied, CurrentAction)
               /\ stored' = stored
               /\ IF target # NoExecutor /\ target.status \in {"Active", "Trading"}
                  THEN /\ effect' = [op |-> "early_stop", uid |-> target.uid]
                       /\ Len(all_executors') = Len(all_executors)
                       /\ \A i \in 1..Len(all_executors) :
                             all_executors'[i] =
                                IF all_executors[i].uid = target.uid
                                THEN [all_executors[i] EXCEPT !.stop_requested = TRUE]
                                ELSE all_executors[i]
                  ELSE /\ effect' = NoEffect
                       /\ Registry' = Registry
       /\ \A i \in 1..Len(all_executors) :
             all_executors[i].status = "Terminated" =>
                \A j \in 1..Len(all_executors') :
                   all_executors'[j].uid = all_executors[i].uid =>
                      all_executors'[j].status = "Terminated"]_vars

\* C9 witness: a Stop has just been applied to an executor that was active in the
\* snapshot and terminated on its own before the apply: no early_stop was invoked.
C9_Witness ==
    /\ pc \in {"execute", "return"}
    /\ applied # <<>>
    /\ LastApplied.type = "stop"
    /\ effect = NoEffect
    /\ ~raised
    /\ TargetOf(LastApplied.executor_id).status = "Terminated"
    /\ \E i \in 1..Len(report) :
          /\ report[i].uid = TargetOf(LastApplied.executor_id).uid
          /\ report[i].status \in {"Active", "Trading"}

\* the perpetual connectors the running program is configured to trade on
PerpetualMarkets ==
    IF framework = "generic"
    THEN {c \in {controller_exchange} : c = "binance_perpetual"}
    ELSE {c \in ConnectorNames : c = "binance_perpetual"}

\* C10: position mode and leverage are set at most once on a connector, never on a
\* connector that is not a perpetual market, and on every perpetual market of the
\* configuration before the first action of the first tick is applied.
C10_BootstrapOnce ==
    /\ \A c \in Connectors :
          /\ position_mode_calls[c] <= 1
          /\ c \notin PerpetualMarkets => position_mode_calls[c] = 0
    /\ \A k \in Connectors \X TradingPairs :
          /\ leverage_calls[k] <= 1
          /\ k[1] \notin PerpetualMarkets => leverage_calls[k] = 0
    /\ pc \in {"execute", "return"} =>
          \A c \in PerpetualMarkets :
             /\ position_mode_calls[c] = 1
             /\ \A trading_pair \in get_trading_pairs(c) :
                   leverage_calls[<<c, trading_pair>>] = 1

\* C10 witness: a later tick of the strategy is applying its actions, executors of an
\* earlier tick are in the registry, and the perpetual connector was configured once.
C10_Witness ==
    /\ framework = "strategy_v2"
    /\ pc = "execute"
    /\ report # <<>>
    /\ account_config_set
    /\ position_mode_calls["binance_perpetual"] = 1
    /\ leverage_calls[<<"binance_perpetual", "ETH-USDT">>] = 1

\* C11: a tick of the strategy in which the market data provider is not ready skips the
\* decide phase: it emits and applies no action and leaves the registry, the persisted
\* executors and the id counters as they were, to its end; and a tick with a ready
\* provider decides on its own snapshot, whatever the ticks before it did.
C11_NotReadyTickDecidesNothing ==
    [][/\ (framework = "strategy_v2" /\ pc = "idle" /\ pc' # "idle" /\ ~provider_ready') =>
            /\ ~decided'
            /\ actions' = <<>>
            /\ applied' = <<>>
            /\ pc' = "return"
            /\ Registry' = Registry
            /\ stored' = stored
            /\ next_id' = next_id
            /\ next_uid' = next_uid
       /\ (framework = "strategy_v2" /\ pc = "return" /\ ~provider_ready) =>
            /\ pc' = "idle"
            /\ Registry' = Registry
            /\ stored' = stored
       /\ (framework = "strategy_v2" /\ pc = "idle" /\ provider_ready') =>
            /\ decided'
            /\ report' = all_executors
            /\ actions' = AssignIds(determine_executor_actions(all_executors, now), next_id)]_vars

\* C11 witness: a tick found the provider not ready while its snapshot held work for
\* the decide phase (a Stop or a Create would have been emitted), and has skipped it.
C11_Witness ==
    /\ framework = "strategy_v2"
    /\ pc = "return"
    /\ ~provider_ready
    /\ ~decided
    /\ report # <<>>
    /\ stop_actions_proposal(report, now) # <<>>
    /\ actions = <<>>

\* an action whose target is invalid: a Store aimed at an executor that is still active,
\* or a Stop or Store aimed at an id that is not in the registry
InvalidTarget(action) ==
    \/ /\ action.type = "store"
       /\ TargetOf(action.executor_id) # NoExecutor
       /\ TargetOf(action.executor_id).status \in {"Active", "Trading"}
    \/ /\ action.type \in {"stop", "store"}
       /\ TargetOf(action.executor_id) = NoExecutor

\* C12: an action with an invalid target is dropped alone: when a tick whose list of
\* Create, Stop and Store actions holds such an action ends, nothing was raised and every
\* action of the list, before and after it, has been applied.
C12_InvalidTargetDroppedAlone ==
    (/\ pc = "return"
     /\ \A k \in 1..Len(actions) : actions[k].type \in {"create", "stop", "store"}
     /\ \E k \in 1..Len(actions) : InvalidTarget(actions[k]))
    => (~raised /\ applied = actions)

\* the places of the action list that hold an action that is none of Create, Stop, Store
UnknownAt == {k \in 1..Len(actions) : actions[k].type \notin {"create", "stop", "store"}}

\* C13: an action that is none of Create, Stop, Store aborts the tick: applying it
\* raises and ends the tick at once, changing neither the registry, nor any executor,
\* nor the persisted executors; and no action at or after its place in the list is
\* ever applied.
C13_UnknownActionAbortsTick ==
    [][/\ (pc = "execute" /\ idx \in UnknownAt) =>
            /\ raised'
            /\ pc' = "return"
            /\ applied' = applied
            /\ Registry' = Registry
            /\ stored' = stored
            /\ effect' = NoEffect
       /\ \A k \in UnknownAt : Len(applied) < k /\ (actions' = actions => Len(applied') < k)
       /\ (pc = "return" /\ raised) => (pc' = "idle" /\ Registry' = Registry)]_vars

\* C13 witness: a tick applied a Create, then met an unknown action and ended raised,
\* with the created executor in the registry.
C13_Witness ==
    /\ pc = "return"
    /\ raised
    /\ Len(actions) = 2
    /\ UnknownAt = {2}
    /\ applied = <<actions[1]>>
    /\ actions[1].type = "create"
    /\ TargetOf(actions[1].config.id) # NoExecutor

-----------------------------------------------------------------------------
(* The strategy under fair scheduling *)

\* the executor carries out the early stop it was asked for
TerminateStopped(uid) ==
    /\ Yielded
    /\ uid \in RegistryUids
    /\ is_active(ExecutorByUid(uid))
    /\ ExecutorByUid(uid).stop_requested
    /\ ExecutorStep(uid, [ExecutorByUid(uid) EXCEPT !.status = "Terminated",
                                                    !.close_timestamp = now])

InitStrategy == framework = "strategy_v2" /\ InitCommon /\ NoMarroqConfig /\ NoCall

\* the strategy's steps; within the bounds its decide phase emits no Store and no
\* unknown action (StrategyAppliesCreateAndStopOnly)
NextStrategy ==
    \/ OnTick
    \/ ExecuteCreate
    \/ ExecuteStop
    \/ Return
    \/ StartTrading
    \/ Terminate
    \/ AdvanceTime

\* ticks keep occurring and find the provider ready again and again; a tick that has
\* started runs to its end; an executor asked to stop early terminates
Fairness ==
    /\ SF_vars(on_tick(TRUE))
    /\ WF_vars(ExecuteCreate)
    /\ WF_vars(ExecuteStop)
    /\ WF_vars(Return)
    /\ \A uid \in 1..MaxExecutors : SF_vars(TerminateStopped(uid))

LiveSpec == InitStrategy /\ [][NextStrategy]_vars /\ Fairness

\* the strategy never has a Store or an unknown action to apply
StrategyAppliesCreateAndStopOnly ==
    framework = "strategy_v2" =>
        \A k \in 1..Len(actions) : actions[k].type \in {"create", "stop"}

\* the executor is Active, has never traded, and is older than the refresh timeout
NeverFilledPastRefresh(uid) ==
    /\ ExecutorByUid(uid).status = "Active"
    /\ now - ExecutorByUid(uid).timestamp > executor_refresh_time

\* the executor was sent Stop: early_stop was called on it
SentStop(uid) == ExecutorByUid(uid).stop_requested

\* a tick has emitted a Create for the side and trading pair of the terminated executor
CreateEmittedFor(uid) ==
    /\ PMMDecided
    /\ ExecutorByUid(uid).status = "Terminated"
    /\ \E k \in 1..Len(CreateActions) :
          /\ CreateActions[k].config.side = ExecutorByUid(uid).side
          /\ CreateActions[k].config.trading_pair = ExecutorByUid(uid).trading_pair

\* the model has no id left for the Creates the next tick would emit
IdsExhausted ==
    next_id + NumAutoIds(determine_executor_actions(all_executors, now)) - 1 > MaxExecutors

\* the executor is waiting for the three steps of a refresh: for its Stop, ...
PendingRefresh(uid) ==
    NeverFilledPastRefresh(uid) /\ ~SentStop(uid) /\ ~IdsExhausted

\* ... for its termination, once it was sent Stop, ...
PendingStop(uid) ==
    SentStop(uid) /\ ExecutorByUid(uid).status \in {"Active", "Trading"}

\* an executor created after this one for the same side and trading pair
LaterExecutorFor(uid) ==
    \E later \in RegistryUids :
        /\ later > uid
        /\ ExecutorByUid(later).side = ExecutorByUid(uid).side
        /\ ExecutorByUid(later).trading_pair = ExecutorByUid(uid).trading_pair

\* ... and, terminated, the last executor created for its side and trading pair, for
\* the Create that replaces it
PendingReplacement(uid) ==
    /\ SentStop(uid)
    /\ ExecutorByUid(uid).status = "Terminated"
    /\ ~LaterExecutorFor(uid)
    /\ ~CreateEmittedFor(uid)
    /\ ~IdsExhausted

RetainedClosed ==
    {i \in TerminatedInReport : report[i].uid \in RegistryUids}

\* C15: when a tick of the strategy whose decide phase ran has applied its actions, at
\* most closed_executors_buffer (the configured retention buffer) of the executors that
\* were Terminated in its snapshot are still in the registry.
C15_RetentionBound ==
    (PMMDecided /\ pc = "return") =>
        Cardinality(RetainedClosed) <= config_closed_executors_buffer

-----------------------------------------------------------------------------
(* The ladder get_executor_config builds *)

\* C16: every configuration get_executor_config returns has as many amounts as prices,
\* and at least one, whatever the number of selected clusters and of weights
C16_LadderLengthsAgree ==
    stage = "returned" =>
        /\ Len(returned_config.prices) = Len(returned_config.amounts_quote)
        /\ Len(returned_config.prices) >= 1

\* C17: the ladder starts with the reference price and each later level is strictly
\* further from it on the adverse side: strictly falling for a buy, strictly rising
\* for a sell, in whatever order the centroids were returned
C17_LadderMonotonic ==
    stage = "returned" =>
        LET prices == returned_config.prices
        IN /\ prices[1] = Decimal(price)
           /\ \A i \in 1..(Len(prices) - 1) :
                  IF returned_config.side = "BUY"
                  THEN Less(prices[i + 1], prices[i])
                  ELSE Less(prices[i], prices[i + 1])

-----------------------------------------------------------------------------
(* Level discovery *)

\* the centroids returned for fewer peaks than clusters asked for are fewer than asked
\* for, and each is the mean of at least one peak
ShortAndDefined(peaks, clusters, num_clusters) ==
    Len(peaks) < num_clusters =>
        /\ Len(clusters) < num_clusters
        /\ \A i \in 1..Len(clusters) : ~IsNaN(clusters[i])

\* C18: when fewer peaks are detected than the number of clusters asked for, the
\* clustering returns fewer centroids than asked for and none of them is undefined
C18_EmptyClustersDropped ==
    [][(stage = "peaks" /\ stage' = "clusters") =>
           /\ ShortAndDefined(high_peak_prices, high_clusters', dca_levels + 1)
           /\ ShortAndDefined(low_peak_prices, low_clusters', dca_levels + 1)]_vars

\* C19: the prominence threshold given to the peak detection is the range of the window,
\* max(high) - min(low), times the prominence fraction, and it is strictly positive for
\* every window, a flat one included
C19_ProminencePositive ==
    stage = "prominence" =>
        /\ prominence = (candles.high_max - candles.low_min) * cluster_prominence
        /\ prominence > 0

-----------------------------------------------------------------------------
(* GenericExecutor with a MarroqController: the decide phase of                *)
(* MarketMakingControllerBase around get_executor_config                       *)

\* the centroids of a tick: peaks at the two ends of the price range
TickCentroids == {Decimal(1), Decimal(MaxPrice)}

\* the sides with no active executor in the report: the levels to execute
levels_to_execute(infos) ==
    SelectSeq(<<"BUY", "SELL">>,
              LAMBDA side : ~\E i \in 1..Len(infos) : infos[i].side = side /\ is_active(infos[i]))

\* one Create per level to execute whose get_executor_config returns a config; a level
\* whose call raises is skipped
RECURSIVE marroq_create_actions(_, _, _)
marroq_create_actions(levels, p, a) ==
    IF levels = <<>> THEN <<>>
    ELSE (IF build_error(Head(levels), p, a) = "none"
          THEN <<CreateExecutorAction(ExecutorConfig("dca_executor", 0, now,
                     controller_trading_pair, controller_exchange, Head(levels)))>>
          ELSE <<>>)
         \o marroq_create_actions(Tail(levels), p, a)

\* the Stop proposals: some of the active executors of the report
StopProposals(infos) ==
    {SelectSeq([i \in 1..Len(infos) |->
                    IF i \in chosen THEN StopExecutorAction(infos[i].id)
                    ELSE UnknownExecutorAction],
               LAMBDA act : act.type = "stop") :
        chosen \in SUBSET {i \in 1..Len(infos) : is_active(infos[i])}}

\* the Store proposals: some of the closed executors of the report
StoreProposals(infos) ==
    {SelectSeq([i \in 1..Len(infos) |->
                    IF i \in chosen THEN StoreExecutorAction(infos[i].id)
                    ELSE UnknownExecutorAction],
               LAMBDA act : act.type = "store") :
        chosen \in SUBSET {i \in 1..Len(infos) : is_closed(infos[i])}}

\* control_task from controller.determine_actions() to the call of execute_actions,
\* the controller being a MarroqController: the market gives the reference price and
\* the clusters of this tick
marroq_determine_actions ==
    /\ framework = "generic"
    /\ pc = "report"
    /\ UNCHANGED <<stage, dca_levels, dca_amounts_distribution, candles, prominence,
                   high_peak_prices, low_peak_prices, trade_type, returned_config, error>>
    /\ UNCHANGED <<controller_stopped, framework, markets, now, position_executors, dca_executors,
                   arbitrage_executors, report, provider_ready, idx, applied, raised,
                   effect, stored, next_uid, started, account_config_set,
                   position_mode_calls, leverage_calls>>
    /\ price' \in Prices
    /\ amount' \in 1..MaxAmount
    /\ high_clusters' \in [1..(dca_levels + 1) -> TickCentroids]
    /\ low_clusters' \in [1..(dca_levels + 1) -> TickCentroids]
    /\ \E stops \in StopProposals(report), stores \in StoreProposals(report) :
          LET creates == marroq_create_actions(levels_to_execute(report), price, amount)'
              acts == creates \o stops \o stores
          IN /\ next_id + Len(creates) - 1 <= MaxControllerCreates
             /\ actions' = AssignIds(acts, next_id)
             /\ next_id' = next_id + Len(creates)
             /\ pc' = IF acts = <<>> THEN "return" ELSE "execute"
    /\ decided' = TRUE

\* a distribution that gives every level the same weight, and one that gives all of it
\* to the last level
EvenWeights == [i \in 1..MaxWeights |-> 1]
BackLoadedWeights == [i \in 1..MaxWeights |-> IF i = MaxWeights THEN 1 ELSE 0]

InitMarroq ==
    /\ framework = "generic"
    /\ InitCommon
    /\ markets = << [name |-> "binance_perpetual", pairs |-> <<"ETH-USDT">>] >>
    /\ dca_levels = 1
    /\ dca_amounts_distribution \in {EvenWeights, BackLoadedWeights}
    /\ NoCall

NextMarroq ==
    \/ on_start
    \/ TakeReport
    \/ marroq_determine_actions
    \/ ExecuteCreate
    \/ ExecuteStop
    \/ ExecuteStore
    \/ Return
    \/ StartTrading
    \/ Terminate

MarroqSpec == InitMarroq /\ [][NextMarroq]_vars

\* the failures of the spec's build: no level on the side's adverse side of the reference
\* price, and no capital in the ladder
InsufficientLevels(side) == selected_clusters(side, price) = <<>>
DegenerateAllocation(side) ==
    LET selected == selected_clusters(side, price)
        adjusted == adjusted_amounts(dca_amounts_distribution, selected)
        prices == ladder_prices(price, selected)
        amounts == ladder_amounts_quote(amount, dca_amounts_distribution, adjusted, prices)
    IN SumSeq([i \in 1..Len(amounts) |-> amounts[i].num]) = 0
BuildFails(side) == InsufficientLevels(side) \/ DegenerateAllocation(side)

CreatesFor(side) ==
    {i \in 1..Len(actions) : actions[i].type = "create" /\ actions[i].config.side = side}
FreeSide(side) == \E i \in 1..Len(levels_to_execute(report)) : levels_to_execute(report)[i] = side
OtherSide(side) == IF side = "BUY" THEN "SELL" ELSE "BUY"

-----------------------------------------------------------------------------
(* The values of the configuration get_executor_config returns *)

\* the clusters were found and compared with the price: lines 144-189 ran
BuildRan == stage \in {"returned", "raised"} /\ high_clusters # <<>> /\ ~comparison_raises

\* C21: when the side has no cluster, or the amounts of the ladder sum to zero,
\* get_executor_config fails and returns no configuration; a configuration it returns
\* has at least one cluster and a positive amount sum
C21_NoConfigFromEmptyLadder ==
    BuildRan =>
        IF InsufficientLevels(trade_type) \/ DegenerateAllocation(trade_type)
        THEN stage = "raised" /\ error # "none" /\ returned_config = NoConfigBuilt
        ELSE stage = "returned" => returned_config.side = trade_type

\* the build failed on a ladder that had a cluster and no capital
C21_Witness ==
    /\ BuildRan
    /\ stage = "raised"
    /\ ~InsufficientLevels(trade_type)
    /\ DegenerateAllocation(trade_type)
    /\ error = "InvalidOperation"
    /\ returned_config = NoConfigBuilt

C23_ActivationIsDistance ==
    stage = "returned" =>
        /\ ~Less(returned_config.activation_price, activation_distance(trade_type, price))
        /\ ~Less(activation_distance(trade_type, price), returned_config.activation_price)
        /\ ~Less(returned_config.activation_price, Decimal(0))


\* C26: get_executor_config returns a configuration whenever the side has a cluster and
\* the amounts of the ladder sum to more than zero, also when there is no cluster on
\* the opposite side of the reference price
C26_BuildsWithoutOppositeCluster ==
    (BuildRan /\ ~InsufficientLevels(trade_type) /\ ~DegenerateAllocation(trade_type)) =>
        stage = "returned"

-----------------------------------------------------------------------------
(* The registry *)

ActiveOn(side, trading_pair) ==
    {i \in 1..Len(all_executors) :
        /\ is_active(all_executors[i])
        /\ all_executors[i].side = side
        /\ all_executors[i].trading_pair = trading_pair}

\* C24: the registry of the strategy never holds more than one active executor of one
\* side on one trading pair, whatever the number of connectors that list the pair
C24_OneActivePerSideAndPair ==
    framework = "strategy_v2" =>
        \A side \in Sides, trading_pair \in TradingPairs :
            Cardinality(ActiveOn(side, trading_pair)) <= 1

\* C25: no two executors of the registry, over its three lists, have the same config
\* id; a Create whose config id is already in the registry adds no second entry
C25_IdsUnique ==
    \A i, j \in 1..Len(all_executors) :
        all_executors[i].id = all_executors[j].id => i = j

AppendedIf(list, kind, executor_config) ==
    IF executor_config.kind = kind
    THEN Append(list, NewExecutor(executor_config, next_uid))
    ELSE list

\* C27: a Create of a position, DCA or arbitrage config starts one new executor and
\* appends it to the list of its kind, and to no other; a Create of any other config
\* starts nothing and leaves the registry as it is; either way no exception is raised
\* and the loop goes on to the next action; an executor enters the registry only in
\* the step that starts it
C27_CreateStartsAndAppends ==
    [][/\ (pc = "execute" /\ actions[idx].type = "create") =>
            LET executor_config == actions[idx].config
            IN /\ position_executors' =
                      AppendedIf(position_executors, "position_executor", executor_config)
               /\ dca_executors' = AppendedIf(dca_executors, "dca_executor", executor_config)
               /\ arbitrage_executors' =
                      AppendedIf(arbitrage_executors, "arbitrage_executor", executor_config)
               /\ effect' = IF executor_config.kind \in ExecutorTypes
                            THEN [op |-> "start", uid |-> next_uid]
                            ELSE NoEffect
               /\ ~raised'
               /\ applied' = Append(applied, actions[idx])
               /\ IF idx < Len(actions)
                  THEN pc' = "execute" /\ idx' = idx + 1 /\ actions' = actions
                  ELSE pc' = "return"
       /\ \A uid \in RegistryUids' \ RegistryUids : effect' = [op |-> "start", uid |-> uid]
      ]_vars

\* a tick ends that applied a Create of an unrecognized config, which added nothing, and
\* after it a Create of a recognized one, which started an executor
C27_Witness ==
    /\ pc = "return"
    /\ ~raised
    /\ Len(actions) = 2
    /\ actions[1].type = "create"
    /\ actions[1].config.kind \notin ExecutorTypes
    /\ actions[2].type = "create"
    /\ actions[2].config.kind = "arbitrage_executor"
    /\ applied = actions
    /\ Len(all_executors) = 1
    /\ effect = [op |-> "start", uid |-> all_executors[1].uid]

-----------------------------------------------------------------------------
(* GenericExecutor.stop *)

\* the active executors alone
executors_to_stop_active_only == SelectSeq(all_executors, is_active)
\* for executor in self.position_executors + self.dca_executors + self.arbitrage_executors
executors_to_stop == all_executors

\* executor.early_stop() on every executor of executors_to_stop
EarlyStopAll(list) ==
    [i \in 1..Len(list) |->
        IF \E j \in 1..Len(executors_to_stop) : executors_to_stop[j].uid = list[i].uid
        THEN [list[i] EXCEPT !.stop_requested = TRUE]
        ELSE list[i]]

\* stop: self.controller.stop(), then self.stop_all_executors(); a synchronous call,
\* made between two steps of the control loop
stop ==
    /\ framework = "generic"
    /\ Yielded
    /\ controller_stopped' = TRUE
    /\ position_executors' = EarlyStopAll(position_executors)
    /\ dca_executors' = EarlyStopAll(dca_executors)
    /\ arbitrage_executors' = EarlyStopAll(arbitrage_executors)
    /\ effect' = [op |-> "stop_all_executors", uid |-> 0]
    /\ UNCHANGED <<marroq_vars, framework, markets, now, pc, report, provider_ready, decided,
                   actions, idx, applied, raised, stored, next_id, next_uid, started,
                   account_config_set, position_mode_calls, leverage_calls>>

InitStop == framework = "generic" /\ InitCommon /\ NoMarroqConfig /\ NoCall

NextStop ==
    \/ on_start
    \/ TakeReport
    \/ determine_actions
    \/ execute_actions
    \/ Return
    \/ StartTrading
    \/ Terminate
    \/ stop

StopSpec == InitStop /\ [][NextStop]_vars

\* C28: the step of GenericExecutor.stop stops the controller, leaves every executor in
\* the list it was in, and when it is done every executor of the registry, of each of
\* the three kinds and closed ones included, has been asked to stop early
C28_StopRequestsEveryExecutor ==
    [][effect' = [op |-> "stop_all_executors", uid |-> 0] =>
           /\ controller_stopped'
           /\ \A i \in 1..Len(all_executors') : all_executors'[i].stop_requested
           /\ [i \in 1..Len(position_executors') |-> position_executors'[i].uid]
                 = [i \in 1..Len(position_executors) |-> position_executors[i].uid]
           /\ [i \in 1..Len(dca_executors') |-> dca_executors'[i].uid]
                 = [i \in 1..Len(dca_executors) |-> dca_executors[i].uid]
           /\ [i \in 1..Len(arbitrage_executors') |-> arbitrage_executors'[i].uid]
                 = [i \in 1..Len(arbitrage_executors) |-> arbitrage_executors[i].uid]
      ]_vars

\* stop was called on a registry that held a closed executor and an active one of another
\* kind, and both have the request
C28_Witness ==
    /\ effect = [op |-> "stop_all_executors", uid |-> 0]
    /\ controller_stopped
    /\ \E i, j \in 1..Len(all_executors) :
          /\ is_closed(all_executors[i])
          /\ is_active(all_executors[j])
          /\ all_executors[i].type # all_executors[j].type
          /\ all_executors[i].stop_requested
          /\ all_executors[j].stop_requested


====
